---- MODULE Spec2Model ----
(***************************************************************************)
(* A model of gcloud/datastore/model.py: the Key constructor, the Property *)
(* validation / conversion pipeline with its typed variants, the Model     *)
(* metaclass fix-up (schema and kind registry) and the Model instance      *)
(* operations (construction, attribute access, put, from_entity,          *)
(* get_multi).  The module is Python 2 code; values are modelled with     *)
(* their Python 2 types, and an operation that raises yields the raised   *)
(* exception as its result.                                                *)
(*                                                                         *)
(* Four specifications share the variables; each leaves the variables of  *)
(* the others at Idle:                                                     *)
(*   SpecKey     Key.__init__                                              *)
(*   SpecProp    one Property descriptor and one attribute slot            *)
(*   SpecInst    one Model subclass with a fixed schema and one instance   *)
(*   SpecSchema  class declarations, the kind registry, get_multi          *)
(***************************************************************************)
EXTENDS Integers, Sequences, FiniteSets, TLC

VARIABLES
    keyCall,    \* SpecKey: the arguments of the last Key(...) call
    keyResult,  \* SpecKey: the Key it built, or the exception it raised
    prop,       \* SpecProp: the Property descriptor under test
    stored,     \* SpecProp: the raw value the instance mapping holds for it
    plast,      \* SpecProp: the last pipeline operation, its argument and result
    schema,     \* SpecInst: cls._properties of the declared Model subclass
    obj,        \* SpecInst: the Model instance (key, raw field mapping)
    now,        \* SpecInst: the clock datetime.utcnow() reads
    saved,      \* SpecInst: what put() handed to the persist operation
    ilast,      \* SpecInst: the last instance operation and its outcome
    classes,    \* SpecSchema: the declared Model subclasses
    kind_map,   \* SpecSchema: Model._kind_map
    gm          \* SpecSchema: the last module-level get_multi call

vars == <<keyCall, keyResult, prop, stored, plast, schema, obj, now, saved,
          ilast, classes, kind_map, gm>>

keyVars == <<keyCall, keyResult>>
propVars == <<prop, stored, plast>>
instVars == <<schema, obj, now, saved, ilast>>
schemaVars == <<classes, kind_map, gm>>

Idle == [t |-> "idle"]

-----------------------------------------------------------------------------
(* Bounds of the model.                                                    *)

\* longest flattened argument sequence handed to Key(...)
MaxFlat == 4
\* last tick of the clock
MaxClock == 2
\* clock ticks per day
DayLen == 2
\* number of Model subclasses declared
MaxClasses == 2
\* longest list of fetch results handed back to get_multi
MaxFetch == 2
\* most keyword arguments one Property declaration passes
MaxKwargs == 2

-----------------------------------------------------------------------------
(* Python 2 values.  Every value is a record with a type tag t.            *)

PyNone == [t |-> "None"]
PyBool(n) == [t |-> "bool", n |-> n]
PyInt(n) == [t |-> "int", n |-> n]
\* a float, held as twice its value (h = 3 is 1.5)
PyFloat(h) == [t |-> "float", h |-> h]
\* a byte string (str), as its bytes
PyStr(b) == [t |-> "str", b |-> b]
\* a text string (unicode), as its code points
PyUnicode(c) == [t |-> "unicode", c |-> c]
\* naive datetime.datetime: day number d and time of day u
PyDateTime(d, u) == [t |-> "datetime", d |-> d, u |-> u]
PyDate(d) == [t |-> "date", d |-> d]
PyTime(u) == [t |-> "time", u |-> u]
PyTuple(e) == [t |-> "tuple", e |-> e]
PyList(e) == [t |-> "list", e |-> e]

\* the outcome of an operation that raises
Raise(exc) == [t |-> "raise", exc |-> exc]
IsRaise(x) == x.t = "raise"

\* isinstance(x, (int, long)): bool is a subclass of int
IsInt(x) == x.t \in {"int", "bool"}
\* isinstance(x, basestring)
IsBaseString(x) == x.t \in {"str", "unicode"}

\* Python truth value, as used by `if x:` / `if not x:`
Truthy(x) ==
    CASE x.t = "None" -> FALSE
      [] x.t \in {"list", "tuple"} -> Len(x.e) > 0
      [] x.t = "str" -> Len(x.b) > 0
      [] x.t = "unicode" -> Len(x.c) > 0
      [] x.t \in {"int", "bool"} -> x.n # 0
      [] x.t = "float" -> x.h # 0
      [] OTHER -> TRUE

-----------------------------------------------------------------------------
(* Key.__init__                                                            *)

\* "Person" and "Address" as byte strings
KindPerson == PyStr(<<80, 101, 114, 115, 111, 110>>)
KindAddress == PyStr(<<65, 100, 100, 114, 101, 115, 115>>)

\* keyword arguments that were not passed read as None (kwargs.get)
NoKw == [app |-> PyNone, namespace |-> PyNone, pairs |-> PyNone,
         flat |-> PyNone, urlsafe |-> PyNone, path |-> PyNone]

\* (mutant) the pairing with kind and identifier exchanged
FlatToPairsSwapped(flat) ==
    [i \in 1..(Len(flat) \div 2) |-> PyTuple(<<flat[2 * i], flat[2 * i - 1]>>)]

\* pairs = [(flat[i], flat[i+1]) for i in range(0, len(flat), 2)]
FlatToPairs(flat) ==
    [i \in 1..(Len(flat) \div 2) |-> PyTuple(<<flat[2 * i - 1], flat[2 * i]>>)]

\* one iteration of the loop over pairs: the segment appended, or the raise
Segment(kind, _id) ==
    CASE IsInt(_id) -> [kind |-> kind, id |-> _id]
      [] IsBaseString(_id) -> [kind |-> kind, name |-> _id]
      [] OTHER -> Raise("SyntaxError")

\* the loop over pairs: the path built, or the first exception raised
RECURSIVE PathOfPairs(_)
PathOfPairs(pairs) ==
    IF pairs = <<>> THEN [t |-> "path", segs |-> <<>>]
    ELSE LET seg == Segment(pairs[1].e[1], pairs[1].e[2])
             rest == PathOfPairs(Tail(pairs))
         IN  IF "t" \in DOMAIN seg THEN seg
             ELSE IF IsRaise(rest) THEN rest
             ELSE [t |-> "path", segs |-> <<seg>> \o rest.segs]

\* Key(*args, **kw): the key handed to the base class initialiser, which
\* keeps path, namespace and dataset_id as given; or the exception raised
KeyInit(args, kw) ==
    IF Truthy(kw.urlsafe) THEN Raise("NotImplementedError")
    ELSE IF Truthy(kw.path)
    THEN [t |-> "Key", path |-> kw.path.e, namespace |-> kw.namespace,
          dataset_id |-> kw.app]
    ELSE LET flat == IF Truthy(kw.flat) THEN kw.flat ELSE args
         IN  IF ~Truthy(kw.pairs) /\ Len(flat.e) % 2 # 0
             THEN Raise("AssertionError")
             ELSE LET pairs == IF Truthy(kw.pairs) THEN kw.pairs.e
                               ELSE FlatToPairs(flat.e)
                      path == PathOfPairs(pairs)
                  IN  IF IsRaise(path) THEN path
                      ELSE [t |-> "Key", path |-> path.segs,
                            namespace |-> kw.namespace, dataset_id |-> kw.app]

\* the values passed as kinds and identifiers
KeyAtoms == {KindPerson, KindAddress, PyInt(42), PyInt(-1), PyStr(<<>>),
             PyFloat(3)}
FlatSeqs == UNION {[1..n -> KeyAtoms] : n \in 0..MaxFlat}
\* a pairs argument: the sequence cut into 2-tuples
ChunkPairs(s) == [i \in 1..(Len(s) \div 2) |-> PyTuple(<<s[2 * i - 1], s[2 * i]>>)]
\* pre-built path data, as the base class takes it
PrebuiltPaths == {<<>>,
                  <<[kind |-> KindPerson, id |-> PyInt(42)]>>,
                  <<[kind |-> KindPerson]>>,
                  <<[kind |-> KindPerson, id |-> PyInt(42)],
                    [kind |-> KindAddress, name |-> KindAddress]>>}

\* no call was made yet; keyCall.e is the sequence it will be made with
KeyPending == keyResult = Idle

\* Key(k1, i1, k2, i2, ...)
KeyPositional ==
    \E app \in {PyNone, PyStr(<<100>>)} :
        /\ KeyPending
        /\ keyCall' = [args |-> PyTuple(keyCall.e), kw |-> [NoKw EXCEPT !.app = app]]
        /\ keyResult' = KeyInit(PyTuple(keyCall.e), [NoKw EXCEPT !.app = app])
        /\ UNCHANGED <<propVars, instVars, schemaVars>>

\* Key(flat=(k1, i1, ...)), possibly with positional arguments as well
KeyFlat ==
    \E a \in {<<>>, <<KindPerson, PyInt(42)>>} :
        /\ KeyPending
        /\ keyCall' = [args |-> PyTuple(a), kw |-> [NoKw EXCEPT !.flat = PyTuple(keyCall.e)]]
        /\ keyResult' = KeyInit(PyTuple(a), [NoKw EXCEPT !.flat = PyTuple(keyCall.e)])
        /\ UNCHANGED <<propVars, instVars, schemaVars>>

\* Key(pairs=[(k1, i1), ...]), the pairs being those of the pending sequence
KeyPairs ==
    \E ns \in {PyNone, PyStr(<<110>>)} :
        /\ KeyPending
        /\ Len(keyCall.e) % 2 = 0
        /\ LET kw == [NoKw EXCEPT !.pairs = PyList(ChunkPairs(keyCall.e)), !.namespace = ns]
           IN  /\ keyCall' = [args |-> PyTuple(<<>>), kw |-> kw]
               /\ keyResult' = KeyInit(PyTuple(<<>>), kw)
        /\ UNCHANGED <<propVars, instVars, schemaVars>>

\* Key(path=[...])
KeyPath ==
    \E p \in PrebuiltPaths :
        /\ KeyPending
        /\ keyCall' = [args |-> PyTuple(keyCall.e), kw |-> [NoKw EXCEPT !.path = PyList(p)]]
        /\ keyResult' = KeyInit(PyTuple(keyCall.e), [NoKw EXCEPT !.path = PyList(p)])
        /\ UNCHANGED <<propVars, instVars, schemaVars>>

\* Key(urlsafe=...)
KeyUrlsafe ==
    \E u \in {PyStr(<<>>), PyStr(<<97>>)} :
        /\ KeyPending
        /\ keyCall' = [args |-> PyTuple(keyCall.e), kw |-> [NoKw EXCEPT !.urlsafe = u]]
        /\ keyResult' = KeyInit(PyTuple(keyCall.e), [NoKw EXCEPT !.urlsafe = u])
        /\ UNCHANGED <<propVars, instVars, schemaVars>>

InitKey ==
    /\ keyCall \in {[t |-> "pending", e |-> s] : s \in FlatSeqs}
    /\ keyResult = Idle
    /\ prop = Idle /\ stored = Idle /\ plast = Idle
    /\ schema = Idle /\ obj = Idle /\ now = 0 /\ saved = Idle /\ ilast = Idle
    /\ classes = <<>> /\ kind_map = Idle /\ gm = Idle

NextKey == KeyPositional \/ KeyFlat \/ KeyPairs \/ KeyPath \/ KeyUrlsafe

SpecKey == InitKey /\ [][NextKey]_vars

-----------------------------------------------------------------------------
(* Claims about Key.                                                       *)

IsKey(x) == x.t = "Key"

\* the identifiers of a flattened sequence are ints or strings
IdsOk(s) == \A i \in 1..Len(s) : i % 2 = 0 => (IsInt(s[i]) \/ IsBaseString(s[i]))

\* the call passed a flattened sequence s (positionally or as flat=) and
\* nothing else that takes part in building the path
FlatCall(s) ==
    /\ keyResult # Idle
    /\ ~Truthy(keyCall.kw.urlsafe) /\ ~Truthy(keyCall.kw.path)
    /\ ~Truthy(keyCall.kw.pairs)
    /\ s = (IF Truthy(keyCall.kw.flat) THEN keyCall.kw.flat.e ELSE keyCall.args.e)

\* the pairs [(k1, i1), (k2, i2), ...] of a flattened (k1, i1, k2, i2, ...)
ExpectedPairs(s) ==
    [i \in 1..(Len(s) \div 2) |-> PyTuple(<<s[2 * i - 1], s[2 * i]>>)]

TheFlat == IF Truthy(keyCall.kw.flat) THEN keyCall.kw.flat.e ELSE keyCall.args.e

\* C8: a Key built from a flattened sequence of even length (positional or
\* flat=) has the path of the Key built from the corresponding pairs; a
\* flattened sequence of odd length raises and builds no Key.
C8_FlatEqualsPairs ==
    FlatCall(TheFlat) =>
        /\ (Len(TheFlat) % 2 = 0 /\ IdsOk(TheFlat)) =>
              LET viaPairs == KeyInit(PyTuple(<<>>),
                                      [NoKw EXCEPT !.pairs = PyList(ExpectedPairs(TheFlat))])
              IN  /\ IsKey(keyResult) /\ IsKey(viaPairs)
                  /\ keyResult.path = viaPairs.path
                  /\ Len(keyResult.path) = Len(TheFlat) \div 2
                  /\ \A i \in 1..Len(keyResult.path) :
                        /\ keyResult.path[i].kind = TheFlat[2 * i - 1]
                        /\ IF IsInt(TheFlat[2 * i])
                           THEN keyResult.path[i] =
                                    [kind |-> TheFlat[2 * i - 1], id |-> TheFlat[2 * i]]
                           ELSE keyResult.path[i] =
                                    [kind |-> TheFlat[2 * i - 1], name |-> TheFlat[2 * i]]
        /\ (Len(TheFlat) % 2 = 1) => keyResult = Raise("AssertionError")

\* a Key was built from ("Person", 42, "Address", "Address") given flat
C8_Witness ==
    /\ FlatCall(<<KindPerson, PyInt(42), KindAddress, KindAddress>>)
    /\ IsKey(keyResult)
    /\ Len(keyResult.path) = 2

\* C7: every Key built has a non-empty path whose segments each carry
\* exactly one identifier, a non-negative integer id or a non-empty name.
C7_KeyWellFormed ==
    (keyResult # Idle /\ IsKey(keyResult)) =>
        /\ Len(keyResult.path) > 0
        /\ \A i \in 1..Len(keyResult.path) :
              LET seg == keyResult.path[i]
              IN  /\ ("id" \in DOMAIN seg) # ("name" \in DOMAIN seg)
                  /\ ("id" \in DOMAIN seg) => (seg.id.t = "int" /\ seg.id.n >= 0)
                  /\ ("name" \in DOMAIN seg) =>
                        (IsBaseString(seg.name) /\ Truthy(seg.name))

-----------------------------------------------------------------------------
(* Text codecs and Python 2 equality.                                      *)

\* str.decode('utf-8') on the code points of one- and two-byte sequences (the
\* byte values the model draws are below 224): the code points, or <<-1>>
\* where Python raises UnicodeDecodeError
Utf8CodePoints(b) ==
    LET dec[i \in 1..(Len(b) + 1)] ==
            IF i > Len(b) THEN <<>>
            ELSE IF b[i] < 128
            THEN IF dec[i + 1] = <<-1>> THEN <<-1>> ELSE <<b[i]>> \o dec[i + 1]
            ELSE IF b[i] >= 194 /\ b[i] <= 223 /\ i < Len(b)
                    /\ b[i + 1] >= 128 /\ b[i + 1] <= 191
            THEN IF dec[i + 2] = <<-1>> THEN <<-1>>
                 ELSE <<(b[i] - 192) * 64 + (b[i + 1] - 128)>> \o dec[i + 2]
            ELSE <<-1>>
    IN  dec[1]

\* the text of decoded code points, or the error
DecodedText(c) == IF c = <<-1>> THEN Raise("UnicodeDecodeError") ELSE PyUnicode(c)

\* value.decode('utf-8') / unicode(value, 'utf-8')
Utf8Decode(value) == DecodedText(Utf8CodePoints(value.b))

\* the numeric value of a bool, int or float, doubled
Num2(x) == IF x.t = "float" THEN x.h ELSE 2 * x.n

\* a == b in Python 2: numbers compare by value, a str equals a unicode when
\* the str is ASCII and has the same characters, a datetime never equals a
\* date, and values of otherwise different types are unequal
PyEq(a, b) ==
    CASE a.t \in {"bool", "int", "float"} /\ b.t \in {"bool", "int", "float"} ->
             Num2(a) = Num2(b)
      [] a.t = "str" /\ b.t = "unicode" ->
             (\A i \in 1..Len(a.b) : a.b[i] < 128) /\ a.b = b.c
      [] a.t = "unicode" /\ b.t = "str" ->
             (\A i \in 1..Len(b.b) : b.b[i] < 128) /\ b.b = a.c
      [] OTHER -> a = b

\* value in choices
PyIn(value, choices) == \E i \in 1..Len(choices) : PyEq(value, choices[i])

\* json.dumps(value): a str holding JSON text, modelled by the document the
\* text denotes (what json.loads gives back for it); TypeError for values
\* that are not serialisable
JsonScalar(value) ==
    CASE value.t \in {"None", "bool", "int", "float", "unicode"} -> value
      [] value.t = "str" -> Utf8Decode(value)
      [] OTHER -> Raise("TypeError")

\* the JSON text of a document, or the error serialising raised
JsonText(doc) == IF IsRaise(doc) THEN doc ELSE [t |-> "jsonstr", doc |-> doc]

\* the array of the elements' documents, or the first error among them
JsonArray(docs) ==
    IF \E i \in 1..Len(docs) : IsRaise(docs[i])
    THEN docs[CHOOSE i \in 1..Len(docs) :
                 IsRaise(docs[i]) /\ \A j \in 1..(i - 1) : ~IsRaise(docs[j])]
    ELSE PyList(docs)

JsonDumps(value) ==
    IF value.t \in {"tuple", "list"}
    THEN JsonText(JsonArray([i \in 1..Len(value.e) |-> JsonScalar(value.e[i])]))
    ELSE JsonText(JsonScalar(value))

\* json.loads(value)
JsonLoads(value) ==
    CASE IsRaise(value) -> value
      [] value.t = "jsonstr" -> value.doc
      [] value.t \in {"str", "unicode"} -> Raise("ValueError")
      [] OTHER -> Raise("TypeError")

\* zlib.compress / zlib.decompress: the module never imports zlib, so the
\* name lookup raises NameError before anything is compressed
ZlibCompress(value) == Raise("NameError")
ZlibDecompress(value) == Raise("NameError")

\* pickle.dumps / pickle.loads: the module never imports pickle
PickleDumps(value) == Raise("NameError")
PickleLoads(value) == Raise("NameError")

\* day number of 1970-01-01, the day TimeProperty stores a time on
EpochDay == 0

-----------------------------------------------------------------------------
(* Property and its typed variants.                                        *)

PropertyClasses == {"Property", "BooleanProperty", "IntegerProperty",
                    "FloatProperty", "BlobProperty", "TextProperty",
                    "StringProperty", "PickleProperty", "JsonProperty",
                    "DateTimeProperty", "DateProperty", "TimeProperty"}
\* subclasses of BlobProperty, of TextProperty, of DateTimeProperty
BlobFamily == {"BlobProperty", "TextProperty", "StringProperty",
               "PickleProperty", "JsonProperty"}
TextFamily == {"TextProperty", "StringProperty"}
DateTimeFamily == {"DateTimeProperty", "DateProperty", "TimeProperty"}

\* the keyword arguments of a Property constructor; "unset" is a keyword
\* that was not passed
DefaultKw == [indexed |-> "unset", repeated |-> "unset", required |-> "unset",
              choices |-> PyNone, validator |-> "none", compressed |-> "unset",
              auto_now_add |-> "unset", auto_now |-> "unset"]

Flag(x, default) == IF x = "unset" THEN default ELSE x = "True"

\* cls(**kw), the attribute name standing in for _name (set by _fix_up):
\* the descriptor, or the exception the constructor raises
NewProperty(cls, name, kw) ==
    LET indexed == Flag(kw.indexed, cls # "TextProperty")
        compressed == Flag(kw.compressed, FALSE)
        auto == Flag(kw.auto_now_add, FALSE) \/ Flag(kw.auto_now, FALSE)
    IN  IF cls \in DateTimeFamily /\ auto /\ Flag(kw.repeated, FALSE)
        THEN Raise("AssertionError")
        ELSE IF \/ kw.compressed # "unset" /\ cls \notin BlobFamily
                \/ kw.auto_now_add # "unset" /\ cls \notin DateTimeFamily
                \/ kw.auto_now # "unset" /\ cls \notin DateTimeFamily
        THEN Raise("TypeError")
        ELSE IF cls \in BlobFamily /\ compressed /\ indexed
        THEN Raise("AssertionError")
        ELSE [t |-> "Property", cls |-> cls, name |-> name,
              indexed |-> indexed,
              repeated |-> Flag(kw.repeated, FALSE),
              required |-> Flag(kw.required, FALSE),
              choices |-> kw.choices, validator |-> kw.validator,
              compressed |-> compressed,
              auto_now_add |-> Flag(kw.auto_now_add, FALSE),
              auto_now |-> Flag(kw.auto_now, FALSE)]

\* assert isinstance(value, unicode), after a decode that may have raised
AssertUnicode(v) ==
    IF IsRaise(v) \/ v.t = "unicode" THEN v ELSE Raise("AssertionError")

\* self._validate(value): the value it returns, or the exception raised
TypeValidate(p, value) ==
    CASE p.cls = "BooleanProperty" ->
             IF value.t = "bool" THEN value ELSE Raise("AssertionError")
      [] p.cls = "IntegerProperty" ->
             IF IsInt(value) THEN PyInt(value.n) ELSE Raise("AssertionError")
      [] p.cls = "FloatProperty" ->
             IF value.t \in {"int", "bool", "float"} THEN PyFloat(Num2(value))
             ELSE Raise("AssertionError")
      [] p.cls = "BlobProperty" ->
             IF value.t = "str" THEN value ELSE Raise("AssertionError")
      [] p.cls \in TextFamily ->
             AssertUnicode(IF value.t = "str" THEN Utf8Decode(value) ELSE value)
      [] p.cls = "DateTimeProperty" ->
             IF value.t = "datetime" THEN value ELSE Raise("AssertionError")
      [] p.cls = "DateProperty" ->
             IF value.t \in {"date", "datetime"} THEN value
             ELSE Raise("AssertionError")
      [] p.cls = "TimeProperty" ->
             IF value.t = "time" THEN value ELSE Raise("AssertionError")
      [] OTHER -> value

\* the custom validators the model declares properties with: one that
\* vetoes every value and one that replaces every value by 7
Validator(p, value) ==
    IF p.validator = "veto" THEN Raise("ValueError") ELSE PyInt(7)

\* the end of validate: v is what self._validate(value) gave
AfterTypeValidate(p, value, v) ==
    IF IsRaise(v) THEN v
    ELSE IF p.validator # "none" THEN Validator(p, value)
    ELSE value

\* Property.validate(value)
Validate(p, value) ==
    IF p.choices # PyNone /\ ~PyIn(value, p.choices.e) THEN Raise("AssertionError")
    ELSE IF p.required /\ value # PyNone THEN Raise("AssertionError")
    ELSE IF value = PyNone THEN PyNone
    ELSE AfterTypeValidate(p, value, TypeValidate(p, value))

\* BlobProperty._to_base_type / _from_base_type, of an argument whose
\* evaluation may have raised
BlobToBase(p, value) ==
    IF IsRaise(value) THEN value
    ELSE IF p.compressed THEN ZlibCompress(value) ELSE value
BlobFromBase(p, value) ==
    IF IsRaise(value) THEN value
    ELSE IF p.compressed THEN ZlibDecompress(value) ELSE value

\* self._to_base_type(value)
ToBaseOf(p, value) ==
    CASE p.cls = "BlobProperty" -> BlobToBase(p, value)
      [] p.cls \in TextFamily ->
             IF value.t = "str" THEN Utf8Decode(value) ELSE value
      [] p.cls = "PickleProperty" -> BlobToBase(p, PickleDumps(value))
      [] p.cls = "JsonProperty" -> BlobToBase(p, JsonDumps(value))
      [] p.cls = "DateProperty" ->
             IF value.t \in {"date", "datetime"} THEN PyDateTime(value.d, 0)
             ELSE Raise("AttributeError")
      [] p.cls = "TimeProperty" ->
             IF value.t \in {"time", "datetime"} THEN PyDateTime(EpochDay, value.u)
             ELSE Raise("AttributeError")
      [] OTHER -> value

\* self._from_base_type(value)
FromBaseOf(p, value) ==
    CASE p.cls = "BlobProperty" -> BlobFromBase(p, value)
      [] p.cls \in TextFamily ->
             IF value.t = "str" THEN Utf8Decode(value)
             ELSE IF value.t = "unicode" THEN value
             ELSE PyNone
      [] p.cls = "PickleProperty" -> PickleLoads(value)
      [] p.cls = "JsonProperty" -> JsonLoads(BlobFromBase(p, value))
      [] p.cls = "DateProperty" ->
             IF value.t = "datetime" THEN PyDate(value.d)
             ELSE Raise("AttributeError")
      [] p.cls = "TimeProperty" ->
             IF value.t = "datetime" THEN PyTime(value.u)
             ELSE Raise("AttributeError")
      [] OTHER -> value

\* Property.to_base_type(value) / Property.from_base_type(value)
ToBaseType(p, value) == IF value = PyNone THEN value ELSE ToBaseOf(p, value)
FromBaseType(p, value) == IF value = PyNone THEN value ELSE FromBaseOf(p, value)

\* __set__: to_base_type of what validate returned, unless validate raised
Convert(p, value) == IF IsRaise(value) THEN value ELSE ToBaseType(p, value)

\* Property.from_db_value(value)
FromDbValue(p, value) ==
    IF p.cls \in TextFamily /\ value.t = "str" THEN Utf8Decode(value) ELSE value

-----------------------------------------------------------------------------
(* SpecProp: one Property declared on a Model subclass under the attribute *)
(* name "f", and the slot of one instance's mapping it reads and writes.   *)

\* the key is not in the instance's mapping
Absent == [t |-> "absent"]
\* instance.get(name)
MappingGet(raw) == IF raw = Absent THEN PyNone ELSE raw

SampleChoices == PyList(<<PyInt(7), PyStr(<<65>>), PyDateTime(1, 1)>>)

\* how many keyword arguments a declaration passes
KwCount(kw) ==
    Cardinality({k \in {"indexed", "repeated", "required", "compressed",
                        "auto_now_add", "auto_now"} : kw[k] # "unset"})
    + (IF kw.choices # PyNone THEN 1 ELSE 0)
    + (IF kw.validator # "none" THEN 1 ELSE 0)

PropKws ==
    {kw \in [indexed : {"unset", "True", "False"}, repeated : {"unset", "True"},
             required : {"unset", "True"}, choices : {PyNone, SampleChoices},
             validator : {"none", "veto", "const7"},
             compressed : {"unset", "True"}, auto_now_add : {"unset", "True"},
             auto_now : {"unset", "True"}] : KwCount(kw) <= MaxKwargs}

\* the values assigned, validated and converted
PropValues == {PyNone, PyBool(1), PyInt(7), PyFloat(3),
               PyStr(<<65>>), PyStr(<<195, 169>>), PyStr(<<195>>),
               PyUnicode(<<65>>), PyUnicode(<<233>>),
               PyDateTime(1, 1), PyDate(1), PyTime(1),
               PyTuple(<<PyInt(1)>>), PyList(<<PyInt(1)>>)}

\* f = cls(**kw) in a class body
PropNew ==
    \E cls \in PropertyClasses, kw \in PropKws :
        /\ prop = Idle
        /\ \E r \in {NewProperty(cls, "f", kw)} :
               /\ prop' = (IF IsRaise(r) THEN Idle ELSE r)
               /\ plast' = [op |-> "new", cls |-> cls, kw |-> kw, res |-> r]
        /\ stored' = Absent
        /\ UNCHANGED <<keyVars, instVars, schemaVars>>

\* prop.validate(v)
PropValidate ==
    \E v \in PropValues :
        /\ prop # Idle /\ plast.op = "new"
        /\ plast' = [op |-> "validate", arg |-> v, res |-> Validate(prop, v)]
        /\ UNCHANGED <<prop, stored, keyVars, instVars, schemaVars>>

\* prop.from_base_type(prop.to_base_type(v))
PropRoundTrip ==
    \E v \in PropValues :
        /\ prop # Idle /\ plast.op = "new"
        /\ \E base \in {ToBaseType(prop, v)} :
               plast' = [op |-> "roundtrip", arg |-> v, base |-> base,
                         res |-> IF IsRaise(base) THEN base
                                 ELSE FromBaseType(prop, base)]
        /\ UNCHANGED <<prop, stored, keyVars, instVars, schemaVars>>

\* Property.__set__: instance.f = v
PropSet ==
    \E v \in PropValues :
        /\ prop # Idle /\ plast.op \in {"new", "set", "get"}
        /\ \E base \in {Convert(prop, Validate(prop, v))} :
               /\ stored' = (IF IsRaise(base) THEN stored ELSE base)
               /\ plast' = [op |-> "set", arg |-> v,
                            res |-> IF IsRaise(base) THEN base ELSE PyNone]
        /\ UNCHANGED <<prop, keyVars, instVars, schemaVars>>

\* Property.__get__: instance.f
PropGet ==
    /\ prop # Idle /\ plast.op \in {"new", "set", "get"}
    /\ plast' = [op |-> "get", res |-> FromBaseType(prop, MappingGet(stored))]
    /\ UNCHANGED <<prop, stored, keyVars, instVars, schemaVars>>

InitProp ==
    /\ prop = Idle /\ stored = Absent /\ plast = Idle
    /\ keyCall = Idle /\ keyResult = Idle
    /\ schema = Idle /\ obj = Idle /\ now = 0 /\ saved = Idle /\ ilast = Idle
    /\ classes = <<>> /\ kind_map = Idle /\ gm = Idle

NextProp == PropNew \/ PropValidate \/ PropRoundTrip \/ PropSet \/ PropGet

SpecProp == InitProp /\ [][NextProp]_vars

-----------------------------------------------------------------------------
(* Claims about the Property pipeline.                                     *)

\* the value passes validation and conversion once required-ness is set aside
PassesButRequired(p, v) ==
    LET q == [p EXCEPT !.required = FALSE]
        value == Validate(q, v)
    IN  ~IsRaise(value) /\ ~IsRaise(ToBaseType(q, value))

\* C1: on a required Property, validate(None) and assigning None fail, and
\* assigning a non-absent value that passes validation succeeds and stores
\* the converted value.
C1_RequiredRejectsNone ==
    (prop # Idle /\ prop.required) =>
        /\ (plast.op \in {"validate", "set"} /\ plast.arg = PyNone) =>
              IsRaise(plast.res)
        /\ (plast.op = "set" /\ plast.arg # PyNone
                /\ PassesButRequired(prop, plast.arg)) =>
              /\ ~IsRaise(plast.res)
              /\ stored = ToBaseType([prop EXCEPT !.required = FALSE],
                                     Validate([prop EXCEPT !.required = FALSE],
                                              plast.arg))

\* C3: for each typed variant, from_base_type(to_base_type(v)) equals v for
\* every v that validate accepts, and None passes through both conversions.
C3_RoundTrip ==
    (prop # Idle /\ prop.cls # "Property" /\ plast.op = "roundtrip") =>
        /\ plast.arg = PyNone => (plast.base = PyNone /\ plast.res = PyNone)
        /\ (plast.arg # PyNone /\ ~IsRaise(Validate(prop, plast.arg))) =>
              PyEq(plast.res, plast.arg)

\* C4: a compressed, unindexed BlobProperty gives back every byte string it
\* converts or is assigned, and compressed with indexed=True fails at
\* construction.
C4_CompressedBlob ==
    /\ (prop # Idle /\ prop.cls = "BlobProperty" /\ prop.compressed
            /\ ~prop.indexed /\ plast.op \in {"roundtrip", "set"}
            /\ plast.arg.t = "str") =>
          /\ plast.op = "roundtrip" => plast.res = plast.arg
          /\ (plast.op = "set" /\ ~IsRaise(Validate(prop, plast.arg))) =>
                /\ ~IsRaise(plast.res)
                /\ FromBaseType(prop, MappingGet(stored)) = plast.arg
    /\ (plast # Idle /\ plast.op = "new" /\ plast.cls = "BlobProperty"
            /\ plast.kw.compressed = "True" /\ plast.kw.indexed = "True") =>
          IsRaise(plast.res)

-----------------------------------------------------------------------------
(* Model instances.  A schema is cls._properties of one declared subclass  *)
(* whose properties keep their attribute names; an instance is its key and *)
(* its raw field mapping.  given is not program state: it remembers, per   *)
(* field, the value the application last assigned.                         *)

\* Model.__init__ up to the keyword loop: the key scoped to the kind, with
\* the identifier when one is passed
NewInstance(sch, id) ==
    [t |-> "Model", key |-> [kind |-> sch.kind, id |-> id],
     fields |-> [n \in DOMAIN sch.props |-> Absent],
     given |-> [n \in DOMAIN sch.props |-> Absent]]

\* instance[name] = base, unless validate or to_base_type raised
Store(o, name, v, base) ==
    IF IsRaise(base) THEN base
    ELSE [o EXCEPT !.fields[name] = base, !.given[name] = v]

\* Property.__set__ through setattr(o, name, v): the instance afterwards,
\* or the exception raised (the instance is then as it was)
SetAttr(sch, o, name, v) ==
    Store(o, name, v, Convert(sch.props[name], Validate(sch.props[name], v)))

\* Property.__set__(o, v) of the descriptor p, stored under p's _name
DescriptorSet(p, o, v) == Store(o, p.name, v, Convert(p, Validate(p, v)))

\* Property.__get__(o, owner) of the descriptor p
DescriptorGet(p, o) == FromBaseType(p, MappingGet(o.fields[p.name]))

\* Property.__get__ through getattr(o, name)
GetAttr(sch, o, name) ==
    FromBaseType(sch.props[name], MappingGet(o.fields[name]))

\* the keyword loop of Model.__init__, over the names in iteration order
SetAll(sch, o, order, kwargs) ==
    LET st[i \in 0..Len(order)] ==
            IF i = 0 THEN o
            ELSE IF IsRaise(st[i - 1]) THEN st[i - 1]
            ELSE SetAttr(sch, st[i - 1], order[i], kwargs[order[i]])
    IN  st[Len(order)]

\* self._now() at clock tick k
NowOf(p, k) ==
    IF p.cls = "DateProperty" THEN PyDate(k \div DayLen)
    ELSE PyDateTime(k \div DayLen, k % DayLen)

\* the body of the hook after v = getattr(entity, self._name)
Stamp(sch, o, name, k, v) ==
    IF IsRaise(v) THEN v
    ELSE IF (v = PyNone /\ sch.props[name].auto_now_add) \/ sch.props[name].auto_now
    THEN SetAttr(sch, o, name, NowOf(sch.props[name], k))
    ELSE o

\* prop._prepare_for_put(o) at clock tick k.  Both setattr calls assign
\* self._now() at the same tick, so the second repeats the first: the hook
\* assigns when the field reads None under auto_now_add or under auto_now
PrepareForPut(sch, o, name, k) ==
    LET p == sch.props[name]
    IN  IF p.cls \notin DateTimeFamily THEN o
        ELSE Stamp(sch, o, name, k, GetAttr(sch, o, name))

\* one iteration of the loop of put: r is what the hook made of o
HookDone(o, r) ==
    IF IsRaise(r) THEN [o |-> o, exc |-> r] ELSE [o |-> r, exc |-> PyNone]

\* the loop of Model.put over self._properties.items(): the instance after
\* the hooks that ran, and the exception when one raised
PrepareAll(sch, o, order, k) ==
    LET st[i \in 0..Len(order)] ==
            IF i = 0 THEN [o |-> o, exc |-> PyNone]
            ELSE IF IsRaise(st[i - 1].exc) THEN st[i - 1]
            ELSE HookDone(st[i - 1].o,
                          PrepareForPut(sch, st[i - 1].o, order[i], k))
    IN  st[Len(order)]

\* (mutant) from_entity leaving the new instance the key cls() gave it
FromEntityFreshKey(sch, entity, dropped) ==
    [t |-> "Model", key |-> [kind |-> sch.kind, id |-> PyNone],
     fields |-> [n \in DOMAIN sch.props |->
                    FromDbValue(sch.props[n],
                                IF n \in dropped THEN PyNone
                                ELSE MappingGet(entity.fields[n]))],
     given |-> [n \in DOMAIN sch.props |-> Absent]]

\* Model.from_entity(entity), the raw entity lacking the fields in dropped
FromEntityOf(sch, entity, dropped) ==
    [t |-> "Model", key |-> entity.key,
     fields |-> [n \in DOMAIN sch.props |->
                    FromDbValue(sch.props[n],
                                IF n \in dropped THEN PyNone
                                ELSE MappingGet(entity.fields[n]))],
     given |-> [n \in DOMAIN sch.props |-> Absent]]

\* the orders a dict over the names can iterate in
Orders(names) ==
    {o \in [1..Cardinality(names) -> names] :
        \A i, j \in 1..Cardinality(names) : i # j => o[i] # o[j]}

-----------------------------------------------------------------------------
(* SpecPerson and SpecEvent: one declared subclass and one instance.       *)

\* class Person(Model): age = IntegerProperty(); name = StringProperty()
PersonSchema ==
    [kind |-> "Person",
     props |-> [n \in {"age", "name"} |->
                  IF n = "age" THEN NewProperty("IntegerProperty", n, DefaultKw)
                  ELSE NewProperty("StringProperty", n, DefaultKw)]]

\* the declarations of a date-time family property with its auto flags
StampDecls ==
    {NewProperty(cls, "f", [DefaultKw EXCEPT !.auto_now_add = a, !.auto_now = b]) :
        cls \in DateTimeFamily, a \in {"unset", "True"}, b \in {"unset", "True"}}

\* the declarations of the second property of Event
UpdatedDecls ==
    {d \in StampDecls : d.auto_now /\ ~d.auto_now_add
                            /\ d.cls \in {"DateTimeProperty", "TimeProperty"}}

\* class Event(Model): created = <a date-time family property>;
\*                     updated = DateTimeProperty(auto_now=True), or
\*                               TimeProperty(auto_now=True)
EventSchemas ==
    {[kind |-> "Event",
      props |-> [n \in {"created", "updated"} |->
                   IF n = "created" THEN [c EXCEPT !.name = n]
                   ELSE [u EXCEPT !.name = n]]] :
        c \in StampDecls, u \in UpdatedDecls}

\* the values the application assigns
InstValues ==
    IF schema.kind = "Person"
    THEN {PyNone, PyInt(30), PyStr(<<65>>), PyStr(<<195, 169>>), PyStr(<<195>>),
          PyUnicode(<<233>>)}
    ELSE {PyNone, PyDateTime(0, 1), PyDate(1), PyTime(1)}

Names == DOMAIN schema.props

Failed(res) == [op |-> "failed", res |-> res]

\* o = cls(id=id, **kwargs), the first instance the model follows
Construct ==
    /\ obj = Idle
    /\ \E id \in {PyNone, PyInt(42)}, given \in SUBSET Names :
        \E kwargs \in [given -> InstValues], order \in Orders(given) :
            \E r \in {SetAll(schema, NewInstance(schema, id), order, kwargs)} :
                /\ obj' = (IF IsRaise(r) THEN obj ELSE r)
                /\ ilast' = (IF IsRaise(r) THEN Failed(r)
                             ELSE [op |-> "construct"])
                /\ UNCHANGED <<schema, now, saved, keyVars, propVars, schemaVars>>

\* o.name = v
Assign ==
    \E n \in Names, v \in InstValues :
        /\ obj # Idle
        /\ \E r \in {SetAttr(schema, obj, n, v)} :
               /\ obj' = (IF IsRaise(r) THEN obj ELSE r)
               /\ ilast' = (IF IsRaise(r) THEN Failed(r)
                            ELSE [op |-> "set", name |-> n])
        /\ UNCHANGED <<schema, now, saved, keyVars, propVars, schemaVars>>

\* cls.name._prepare_for_put(o), the pre-put hook of one property
PreparePut ==
    \E n \in Names :
        /\ obj # Idle
        /\ \E r \in {PrepareForPut(schema, obj, n, now)} :
               /\ obj' = (IF IsRaise(r) THEN obj ELSE r)
               /\ ilast' = [op |-> "prepare", name |-> n, at |-> now,
                            before |-> GetAttr(schema, obj, n), res |-> r]
        /\ UNCHANGED <<schema, now, saved, keyVars, propVars, schemaVars>>

\* o.put(): every hook in the dict's iteration order, then save()
Put ==
    \E order \in Orders(Names) :
        /\ obj # Idle
        /\ \E r \in {PrepareAll(schema, obj, order, now)} :
               /\ obj' = r.o
               /\ saved' = (IF IsRaise(r.exc) THEN saved
                            ELSE [t |-> "Entity", key |-> r.o.key,
                                  fields |-> r.o.fields, given |-> r.o.given])
               /\ ilast' = (IF IsRaise(r.exc) THEN Failed(r.exc)
                            ELSE [op |-> "put"])
        /\ UNCHANGED <<schema, now, keyVars, propVars, schemaVars>>

\* o = cls.from_entity(e), e the raw entity that was persisted, as the store
\* hands it back with all its fields or without some of them
FromEntity ==
    \E dropped \in SUBSET Names :
        /\ saved # Idle
        /\ obj' = FromEntityOf(schema, saved, dropped)
        /\ ilast' = [op |-> "from_entity", dropped |-> dropped]
        /\ UNCHANGED <<schema, now, saved, keyVars, propVars, schemaVars>>

\* time passes
Tick ==
    /\ now < MaxClock
    /\ now' = now + 1
    /\ UNCHANGED <<schema, obj, saved, ilast, keyVars, propVars, schemaVars>>

InitInst ==
    /\ obj = Idle /\ now = 0 /\ saved = Idle /\ ilast = Idle
    /\ keyCall = Idle /\ keyResult = Idle
    /\ prop = Idle /\ stored = Idle /\ plast = Idle
    /\ classes = <<>> /\ kind_map = Idle /\ gm = Idle

InitPerson == schema = PersonSchema /\ InitInst
InitEvent == schema \in EventSchemas /\ InitInst

NextInst == Construct \/ Assign \/ PreparePut \/ Put \/ FromEntity \/ Tick

SpecPerson == InitPerson /\ [][NextInst]_vars
SpecEvent == InitEvent /\ [][NextInst]_vars

-----------------------------------------------------------------------------
(* Claims about instances.                                                 *)

\* the current time at tick k in the type the property holds
CurrentTime(p, k) ==
    IF p.cls = "DateProperty" THEN PyDate(k \div DayLen)
    ELSE IF p.cls = "TimeProperty" THEN PyTime(k % DayLen)
    ELSE PyDateTime(k \div DayLen, k % DayLen)

\* the last step was the pre-put hook of property ilast.name
HookRan == ilast # Idle /\ ilast.op = "prepare"

\* the hook returned, and the field now reads v
HookLeft(v) ==
    /\ ~IsRaise(ilast.res)
    /\ GetAttr(schema, obj, ilast.name) = v

\* C5: after any assignments and pre-put calls, a pre-put call of a date-time
\* family property with auto_now_add and without auto_now sets an absent
\* field to the current time and leaves a set one as it was; with auto_now
\* it succeeds and sets the field to the current time whatever it held; with
\* neither flag it leaves the field as it was.
C5_PrePutHook ==
    HookRan =>
        IF schema.props[ilast.name].auto_now
        THEN HookLeft(CurrentTime(schema.props[ilast.name], ilast.at))
        ELSE IF schema.props[ilast.name].auto_now_add /\ ilast.before = PyNone
        THEN HookLeft(CurrentTime(schema.props[ilast.name], ilast.at))
        ELSE HookLeft(ilast.before)

\* C6: a failed assignment, construction or put leaves the instance's field
\* mapping as it was before the operation began, and has persisted nothing.
C6_NoPartialMutation ==
    [][(ilast' # Idle /\ ilast'.op = "failed")
          => (obj' = obj /\ saved' = saved)]_vars

\* the value a field given as v reads back as: a byte string as the text it
\* decodes to, any other value as itself
ReadBackOf(v) == IF v.t = "str" THEN Utf8Decode(v) ELSE v

\* the last step rebuilt the instance from the persisted entity
Rebuilt == ilast # Idle /\ ilast.op = "from_entity"

\* field n of the persisted entity was assigned by the application and the
\* store handed it back
Kept(n) == n \notin ilast.dropped /\ saved.given[n] # Absent

\* field n is missing from the raw entity
Missing(n) == n \in ilast.dropped \/ saved.fields[n] = Absent

WhollyGiven ==
    /\ saved.key.id # PyNone
    /\ \A n \in Names : saved.given[n] # Absent /\ saved.given[n] # PyNone

-----------------------------------------------------------------------------
(* SpecSchema: class statements deriving from Model, the registry of kinds *)
(* they fill, instances of the declared classes, and module get_multi.     *)

\* the _name of a Property constructed without name=
Unnamed == ""

\* what a class body binds the attribute to: a plain value, a Property
\* without a name, or a Property with an explicit one
AttrDecls(attr) ==
    IF attr = "a"
    THEN {PyInt(7), NewProperty("IntegerProperty", Unnamed, DefaultKw),
          NewProperty("IntegerProperty", "x", DefaultKw)}
    ELSE {NewProperty("StringProperty", Unnamed, DefaultKw),
          NewProperty("StringProperty", "x", DefaultKw)}

\* the bodies of the class statements
ClassDicts == {d \in [{"a", "b"} -> UNION {AttrDecls(n) : n \in {"a", "b"}}] :
                  \A n \in {"a", "b"} : d[n] \in AttrDecls(n)}

\* the names a field can be stored under
StorageNames == {"a", "b", "x"}

IsProperty(attr) == attr.t = "Property"

\* attr._fix_up(cls, name)
FixUp(attr, name) ==
    IF attr.name = Unnamed THEN [attr EXCEPT !.name = name] ELSE attr

\* m[k] = v on a dict
DictSet(m, k, v) == [n \in DOMAIN m \cup {k} |-> IF n = k THEN v ELSE m[n]]

\* one iteration of the loop of _fix_up_properties: props is _properties,
\* which holds each Property by the attribute it is bound to
FixUpOne(props, d, name) ==
    IF IsProperty(d[name]) THEN DictSet(props, FixUp(d[name], name).name, name)
    ELSE props

\* cls._fix_up_properties() up to the registration, for the class body d
\* iterated in the given order: the new _properties
FixUpProperties(d, order) ==
    LET st[i \in 0..Len(order)] ==
            IF i = 0 THEN [n \in {} |-> ""]
            ELSE FixUpOne(st[i - 1], d, order[i])
    IN  st[Len(order)]

\* the class object MetaModel.__init__ leaves: __dict__ with the Property
\* objects fixed up, _properties, and the names the body gave explicitly
ClassOf(name, d, order) ==
    [name |-> name,
     dict |-> [n \in DOMAIN d |->
                 IF IsProperty(d[n]) THEN FixUp(d[n], n) ELSE d[n]],
     explicit |-> [n \in DOMAIN d |->
                     IF IsProperty(d[n]) THEN d[n].name ELSE Unnamed],
     properties |-> FixUpProperties(d, order)]

\* Model itself, which MetaModel.__init__ also fixes up and registers
ModelClass ==
    [name |-> "Model", dict |-> [n \in {} |-> PyNone],
     explicit |-> [n \in {} |-> Unnamed], properties |-> [n \in {} |-> ""]]

\* the class object with index i, 0 for Model
ClassAt(i) == IF i = 0 THEN ModelClass ELSE classes[i]

\* the kind and the name -> Property mapping of class i
SchemaOf(i) ==
    [kind |-> ClassAt(i).name,
     props |-> [n \in DOMAIN ClassAt(i).properties |->
                  ClassAt(i).dict[ClassAt(i).properties[n]]]]

\* class name(Model): <body d>
DeclareClass ==
    \E name \in {"Person", "Address"}, d \in ClassDicts :
        \E order \in Orders(DOMAIN d) :
            /\ Len(classes) < MaxClasses
            /\ classes' = Append(classes, ClassOf(name, d, order))
            /\ kind_map' = DictSet(kind_map, name, Len(classes) + 1)
            /\ UNCHANGED <<gm, keyVars, propVars, instVars>>

\* an instance r of class i
InstanceOf(i, r) ==
    [t |-> "Model", cls |-> i, key |-> r.key, fields |-> r.fields,
     given |-> r.given]

\* the instance Model.__init__ has made of class i before its keyword loop
BareInstance(i, id) ==
    [t |-> "Model", cls |-> i, key |-> [kind |-> ClassAt(i).name, id |-> id],
     fields |-> [n \in StorageNames |-> Absent],
     given |-> [n \in StorageNames |-> Absent]]

\* the attributes of class i bound to a Property
PropertyAttrs(i) ==
    {n \in DOMAIN ClassAt(i).dict : IsProperty(ClassAt(i).dict[n])}

\* the value the application passes for the attribute
KwargFor(attr) == IF attr = "a" THEN PyInt(1) ELSE PyStr(<<65>>)

\* o = classes[i](id=1), without keywords
NewBare ==
    \E i \in DOMAIN classes :
        /\ obj = Idle
        /\ obj' = BareInstance(i, PyInt(1))
        /\ ilast' = [op |-> "construct"]
        /\ UNCHANGED <<schema, now, saved, classes, kind_map, gm,
                       keyVars, propVars>>

\* o = classes[i](id=1, attr=v), attr bound to a Property
NewWith ==
    \E i \in DOMAIN classes :
        /\ obj = Idle
        /\ \E attr \in PropertyAttrs(i) :
            \E r \in {DescriptorSet(classes[i].dict[attr],
                                    BareInstance(i, PyInt(1)), KwargFor(attr))} :
                /\ obj' = (IF IsRaise(r) THEN obj ELSE r)
                /\ ilast' = (IF IsRaise(r) THEN Failed(r)
                             ELSE [op |-> "construct"])
        /\ UNCHANGED <<schema, now, saved, classes, kind_map, gm,
                       keyVars, propVars>>

\* o.attr, attr bound to a Property
ReadAttr ==
    /\ obj # Idle
    /\ \E attr \in PropertyAttrs(obj.cls) :
           ilast' = [op |-> "get", name |-> attr,
                     res |-> DescriptorGet(ClassAt(obj.cls).dict[attr], obj)]
    /\ UNCHANGED <<schema, obj, now, saved, classes, kind_map, gm,
                   keyVars, propVars>>

\* o.put()
PutOf ==
    /\ obj # Idle
    /\ \E order \in Orders(DOMAIN ClassAt(obj.cls).properties) :
        \E r \in {PrepareAll(SchemaOf(obj.cls), obj, order, now)} :
            /\ obj' = r.o
            /\ saved' = (IF IsRaise(r.exc) THEN saved
                         ELSE [t |-> "Entity", key |-> r.o.key,
                               fields |-> r.o.fields, given |-> r.o.given])
            /\ ilast' = (IF IsRaise(r.exc) THEN Failed(r.exc)
                         ELSE [op |-> "put"])
    /\ UNCHANGED <<schema, now, classes, kind_map, gm, keyVars, propVars>>

\* a raw entity of the kind as dataset.get_entities returns it
FetchedEntity(kind) ==
    [t |-> "Entity", key |-> [kind |-> kind, id |-> PyInt(1)],
     fields |-> [n \in StorageNames |-> IF n = "a" THEN PyInt(1) ELSE Absent],
     given |-> [n \in StorageNames |-> Absent]]

\* what dataset.get_entities(keys) can return: per key the entity, or None
\* for a key it did not resolve
Fetched ==
    UNION {[1..n -> {PyNone} \cup
                    {FetchedEntity(k) : k \in {"Person", "Address", "Ghost"}}] :
             n \in 0..MaxFetch}

\* the body of the loop of get_multi for one entity, results so far in res
GetMultiOne(res, entity) ==
    IF IsRaise(res) THEN res
    ELSE IF entity = PyNone
    THEN Raise("AttributeError")
    ELSE IF entity.key.kind \notin DOMAIN kind_map
    THEN Raise("KeyError")
    ELSE PyList(Append(res.e,
                       InstanceOf(kind_map[entity.key.kind],
                                  FromEntityOf(SchemaOf(kind_map[entity.key.kind]),
                                               entity, {}))))

\* get_multi(keys), entities being what the fetch returned
GetMultiOf(entities) ==
    LET st[i \in 0..Len(entities)] ==
            IF i = 0 THEN PyList(<<>>)
            ELSE GetMultiOne(st[i - 1], entities[i])
    IN  st[Len(entities)]

\* results = get_multi(keys), the first call the model follows
GetMulti ==
    \E entities \in Fetched :
        /\ gm = Idle
        /\ gm' = [t |-> "get_multi", fetched |-> entities, map |-> kind_map,
                  res |-> GetMultiOf(entities)]
        /\ UNCHANGED <<classes, kind_map, keyVars, propVars, instVars>>

InitSchema ==
    /\ classes = <<>> /\ kind_map = [k \in {"Model"} |-> 0] /\ gm = Idle
    /\ schema = Idle /\ obj = Idle /\ now = 0 /\ saved = Idle /\ ilast = Idle
    /\ keyCall = Idle /\ keyResult = Idle
    /\ prop = Idle /\ stored = Idle /\ plast = Idle

NextSchema ==
    DeclareClass \/ NewBare \/ NewWith \/ ReadAttr \/ PutOf \/ GetMulti

SpecSchema == InitSchema /\ [][NextSchema]_vars

-----------------------------------------------------------------------------
(* Claims about the schema and the registry.                               *)

\* the name the class body asks the Property bound to attr to be stored
\* under: the explicit name, else the attribute name
StorageName(c, attr) ==
    IF c.explicit[attr] = Unnamed THEN attr ELSE c.explicit[attr]

\* the attributes the body of class c binds to a Property
Declared(c) == {n \in DOMAIN c.dict : IsProperty(c.dict[n])}

\* every Property declared on c is in c's schema exactly once, under its
\* storage name, and the schema holds nothing else
SchemaExact(c) ==
    /\ \A attr \in Declared(c) :
        /\ StorageName(c, attr) \in DOMAIN c.properties
        /\ c.properties[StorageName(c, attr)] = attr
        /\ Cardinality({n \in DOMAIN c.properties : c.properties[n] = attr}) = 1
    /\ \A n \in DOMAIN c.properties : c.properties[n] \in Declared(c)

\* C10: after any sequence of declarations, every Property declared on a
\* subclass is in that subclass's schema exactly once under its storage name
\* (explicit name, else attribute name), the schema holds nothing else, and
\* no later declaration, construction, read or put changes the schema of a
\* subclass declared before.
C10_SchemaFixed ==
    [][/\ \A i \in DOMAIN classes' : SchemaExact(classes'[i])
       /\ \A i \in DOMAIN classes : classes'[i] = classes[i]]_vars

\* some entity the fetch returned is of a kind that was never registered
UnknownKind ==
    \E i \in DOMAIN gm.fetched :
        /\ gm.fetched[i] # PyNone
        /\ gm.fetched[i].key.kind \notin DOMAIN gm.map

\* result i mirrors fetch result i: None for None, else an instance of the
\* class registered under the entity's kind
Mirrors(i) ==
    IF gm.fetched[i] = PyNone THEN gm.res.e[i] = PyNone
    ELSE /\ gm.res.e[i] # PyNone
         /\ gm.res.e[i].cls = gm.map[gm.fetched[i].key.kind]

\* C2: get_multi returns a list as long as the fetch results and in their
\* order, None exactly where the fetch result is None and elsewhere an
\* instance of the class registered under the entity's kind; when an entity
\* is of a kind never registered the call fails with an unknown-kind error.
C2_GetMultiMirrorsFetch ==
    gm # Idle =>
        IF UnknownKind THEN gm.res = Raise("KeyError")
        ELSE /\ ~IsRaise(gm.res)
             /\ Len(gm.res.e) = Len(gm.fetched)
             /\ \A i \in DOMAIN gm.fetched : Mirrors(i)

Spec == SpecKey
====
